---- MODULE Spec2Model ----
(***************************************************************************)
(* tools/apply_patch.py: read a patch from standard input, write it to the *)
(* fixed path /tmp/tiara_patch.patch, run `git apply --check` on it and    *)
(* then `git apply`, relaying a failing child's output and exit code.      *)
(*                                                                         *)
(* Each process of Procs is one invocation of the script.  The file at the *)
(* fixed path and the working tree are shared by all invocations.  A text  *)
(* is a sequence of characters, a file's content a sequence of bytes.      *)
(***************************************************************************)
EXTENDS Integers, Sequences, FiniteSets, TLC

VARIABLES
  file,        \* the fixed path: [exists, data], data a sequence of bytes
  tree,        \* the working tree: the patch contents git applied, in order
  pc,          \* pc[p]: where invocation p stands in main()
  patch_text,  \* patch_text[p]: what sys.stdin.read() returned
  stderr,      \* stderr[p]: the chunks written to the error stream
  stdout,      \* stdout[p]: the chunks written to standard output
  exitcode,    \* exitcode[p]: <<>> while running, <<status>> once exited
  log,         \* log[p]: the file and child-process operations of the run
  checkRes,    \* checkRes[p]: <<>>, or <<r>> once `git apply --check` returned
  applyRes,    \* applyRes[p]: <<>>, or <<r>> once `git apply` returned
  file0,       \* file0[p]: the fixed path as it was when run p started
  tree0,       \* tree0[p]: the working tree as it was when run p started
  alone        \* alone[p]: no other invocation was active during run p

vars == <<file, tree, pc, patch_text, stderr, stdout, exitcode, log,
          checkRes, applyRes, file0, tree0, alone>>

(* ------------------------------ bounds -------------------------------- *)

MaxLen == 2

(* ------------------------------ inputs -------------------------------- *)

Procs == {1, 2}

Whitespace == {" "}

Chars == {"d", "e'"} \cup Whitespace

Texts == UNION {[1..n -> Chars] : n \in 0..MaxLen}

\* What subprocess.run(cmd, text=True, capture_output=True) can return for git:
\* returncode is the child's exit status, or -N when signal N ended the child;
\* out and err are what the child wrote before it ended.
GitOutcomes ==
  {[rc |-> 0, out |-> "", err |-> ""],
   [rc |-> 1, out |-> "Checking patch...", err |-> "error: patch does not apply"],
   [rc |-> 128, out |-> "", err |-> "fatal: unrecognized input"],
   [rc |-> -9, out |-> "", err |-> ""]}

(* ------------------------------ text ---------------------------------- *)

\* str.encode("utf-8") of one character; "e'" stands for U+00E9.
Utf8Char(c) ==
  CASE c = "d" -> <<100>>
    [] c = " " -> <<32>>
    [] c = "e'" -> <<195, 169>>

\* Mutant of Utf8Encode: one byte per character (encoding="latin-1").
Latin1Encode(t) ==
  [i \in 1..Len(t) |-> IF t[i] = "e'" THEN 233 ELSE Utf8Char(t[i])[1]]

RECURSIVE Utf8Encode(_)
Utf8Encode(t) ==
  IF t = <<>> THEN <<>> ELSE Utf8Char(Head(t)) \o Utf8Encode(Tail(t))

RECURSIVE LStrip(_)
LStrip(t) ==
  IF t # <<>> /\ Head(t) \in Whitespace THEN LStrip(Tail(t)) ELSE t

RECURSIVE RStrip(_)
RStrip(t) ==
  IF t # <<>> /\ t[Len(t)] \in Whitespace
  THEN RStrip(SubSeq(t, 1, Len(t) - 1))
  ELSE t

\* str.strip()
Strip(t) == RStrip(LStrip(t))

\* Mutant of IsBlank: only the empty text counts as blank (`if not patch_text`).
IsBlankEmptyOnly(t) == t = <<>>

\* `not patch_text.strip()`
IsBlank(t) == Strip(t) = <<>>

(* ------------------------------ main ---------------------------------- *)

NoFile == [exists |-> FALSE, data |-> <<>>]

patch_path == "/tmp/tiara_patch.patch"

UsageMsg == "No patch text on stdin. Paste diff and end with Ctrl-D."

Active(p) == pc[p] \notin {"start", "exited"}

Init ==
  /\ file = NoFile
  /\ tree = <<>>
  /\ pc = [p \in Procs |-> "start"]
  /\ patch_text = [p \in Procs |-> <<>>]
  /\ stderr = [p \in Procs |-> <<>>]
  /\ stdout = [p \in Procs |-> <<>>]
  /\ exitcode = [p \in Procs |-> <<>>]
  /\ log = [p \in Procs |-> <<>>]
  /\ checkRes = [p \in Procs |-> <<>>]
  /\ applyRes = [p \in Procs |-> <<>>]
  /\ file0 = [p \in Procs |-> NoFile]
  /\ tree0 = [p \in Procs |-> <<>>]
  /\ alone = [p \in Procs |-> TRUE]

\* patch_text = sys.stdin.read()
Start(p) ==
  /\ pc[p] = "start"
  /\ \E t \in Texts : patch_text' = [patch_text EXCEPT ![p] = t]
  /\ pc' = [pc EXCEPT ![p] = "test"]
  /\ file0' = [file0 EXCEPT ![p] = file]
  /\ tree0' = [tree0 EXCEPT ![p] = tree]
  /\ alone' = [q \in Procs |->
                 IF q = p THEN \A r \in Procs \ {p} : ~Active(r)
                 ELSE IF Active(q) THEN FALSE ELSE alone[q]]
  /\ UNCHANGED <<file, tree, stderr, stdout, exitcode, log, checkRes, applyRes>>

\* Mutant of OpenTruncate: the path is opened without truncation (mode "r+").
OpenKeep(f) == [exists |-> TRUE, data |-> f.data]

\* Path.write_text opens the path with mode "w": created if missing, truncated
\* if present.
OpenTruncate(f) == [exists |-> TRUE, data |-> <<>>]

\* f.write(data) on the descriptor just opened: the bytes go to offset 0 and
\* whatever the file holds beyond them stays.
WriteAt0(old, bytes) ==
  bytes \o SubSeq(old, Len(bytes) + 1, Len(old))

\* print(..., file=sys.stderr)
UsageOutput(err) == err \o <<UsageMsg, "\n">>

\* print(f"Applied patch: {patch_path}")
Confirmation(path) == <<"Applied patch: ", path, "\n">>

\* Mutant of RunFails: only a positive return code counts as a failure.
RunFailsPositive(rc) == rc > 0

\* run(): `if p.returncode != 0`
RunFails(rc) == rc # 0

\* Mutant of ExitStatus: every failure exits with status 1 (sys.exit(1)).
ExitStatusOne(rc) == 1

\* run(): sys.exit(p.returncode); the status a parent sees is the low 8 bits.
ExitStatus(rc) == rc % 256

\* Mutant of Relay: only the child's standard error is relayed.
RelayStderrOnly(err, r) == err \o <<r.err>>

\* run(): sys.stderr.write(p.stdout); sys.stderr.write(p.stderr)
Relay(err, r) == err \o <<r.out, r.err>>

\* What a child can come back with; it reads the file at the path it is given.
ChildResults ==
  {[rc |-> g.rc, out |-> g.out, err |-> g.err, saw |-> file.data] :
     g \in GitOutcomes}

\* Mutant of BlankExit: the text is written to the path before it is tested.
BlankExitAfterWrite(p) ==
  /\ pc[p] = "test"
  /\ IsBlank(patch_text[p])
  /\ file' = [exists |-> TRUE, data |-> Utf8Encode(patch_text[p])]
  /\ stderr' = [stderr EXCEPT ![p] = UsageOutput(@)]
  /\ exitcode' = [exitcode EXCEPT ![p] = <<1>>]
  /\ pc' = [pc EXCEPT ![p] = "exited"]
  /\ UNCHANGED <<tree, patch_text, stdout, log, checkRes, applyRes,
                 file0, tree0, alone>>

\* The empty-input branch: usage message, sys.exit(1).
BlankExit(p) ==
  /\ pc[p] = "test"
  /\ IsBlank(patch_text[p])
  /\ stderr' = [stderr EXCEPT ![p] = UsageOutput(@)]
  /\ exitcode' = [exitcode EXCEPT ![p] = <<1>>]
  /\ pc' = [pc EXCEPT ![p] = "exited"]
  /\ UNCHANGED <<file, tree, patch_text, stdout, log, checkRes, applyRes,
                 file0, tree0, alone>>

\* patch_path.write_text(...), first half: open(mode="w").
OpenFile(p) ==
  /\ pc[p] = "test"
  /\ ~IsBlank(patch_text[p])
  /\ file' = OpenTruncate(file)
  /\ log' = [log EXCEPT ![p] = Append(@, "open")]
  /\ pc' = [pc EXCEPT ![p] = "write"]
  /\ UNCHANGED <<tree, patch_text, stderr, stdout, exitcode, checkRes,
                 applyRes, file0, tree0, alone>>

\* patch_path.write_text(...), second half: write the encoded text and close.
WriteFile(p) ==
  /\ pc[p] = "write"
  /\ file' = [exists |-> TRUE,
              data |-> WriteAt0(file.data, Utf8Encode(patch_text[p]))]
  /\ log' = [log EXCEPT ![p] = Append(@, "write")]
  /\ pc' = [pc EXCEPT ![p] = "check"]
  /\ UNCHANGED <<tree, patch_text, stderr, stdout, exitcode, checkRes,
                 applyRes, file0, tree0, alone>>

\* Mutant of RunReturn: a failing command is run a second time before giving up.
RunReturnRetry(p, r, next) ==
  LET again == IF next = "apply" THEN "check" ELSE "apply"
      first == IF next = "apply" THEN checkRes[p] = <<>> ELSE applyRes[p] = <<>>
  IN IF RunFails(r.rc) /\ first
     THEN /\ pc' = [pc EXCEPT ![p] = again]
          /\ UNCHANGED <<stderr, exitcode>>
     ELSE IF RunFails(r.rc)
     THEN /\ stderr' = [stderr EXCEPT ![p] = Relay(@, r)]
          /\ exitcode' = [exitcode EXCEPT ![p] = <<ExitStatus(r.rc)>>]
          /\ pc' = [pc EXCEPT ![p] = "exited"]
     ELSE /\ pc' = [pc EXCEPT ![p] = next]
          /\ UNCHANGED <<stderr, exitcode>>

\* run(): the lines after subprocess.run returned r; `next` is where main()
\* goes on when run() returns.
RunReturn(p, r, next) ==
  IF RunFails(r.rc)
  THEN /\ stderr' = [stderr EXCEPT ![p] = Relay(@, r)]
       /\ exitcode' = [exitcode EXCEPT ![p] = <<ExitStatus(r.rc)>>]
       /\ pc' = [pc EXCEPT ![p] = "exited"]
  ELSE /\ pc' = [pc EXCEPT ![p] = next]
       /\ UNCHANGED <<stderr, exitcode>>

\* run(["git", "apply", "--check", path]): the child is started.
InvokeCheck(p) ==
  /\ pc[p] = "check"
  /\ log' = [log EXCEPT ![p] = Append(@, "check:start")]
  /\ pc' = [pc EXCEPT ![p] = "checking"]
  /\ UNCHANGED <<file, tree, patch_text, stderr, stdout, exitcode, checkRes,
                 applyRes, file0, tree0, alone>>

\* Mutant of CheckReturn: the temporary file is removed when the check fails.
CheckReturnCleanup(p) ==
  /\ pc[p] = "checking"
  /\ \E r \in ChildResults :
       /\ checkRes' = [checkRes EXCEPT ![p] = <<r>>]
       /\ RunReturn(p, r, "apply")
       /\ file' = IF RunFails(r.rc) THEN NoFile ELSE file
  /\ log' = [log EXCEPT ![p] = Append(@, "check:exit")]
  /\ UNCHANGED <<tree, patch_text, stdout, applyRes, file0, tree0, alone>>

\* Mutant of CheckReturn: a rejected patch that the tree already holds is
\* reported as a success.
CheckReturnIdempotent(p) ==
  /\ pc[p] = "checking"
  /\ \E r \in ChildResults :
       /\ checkRes' = [checkRes EXCEPT ![p] = <<r>>]
       /\ IF RunFails(r.rc) /\ \E i \in 1..Len(tree) : tree[i] = file.data
          THEN /\ pc' = [pc EXCEPT ![p] = "exited"]
               /\ exitcode' = [exitcode EXCEPT ![p] = <<0>>]
               /\ stdout' = [stdout EXCEPT ![p] = @ \o <<"Already applied", "\n">>]
               /\ UNCHANGED stderr
          ELSE /\ RunReturn(p, r, "apply")
               /\ UNCHANGED stdout
  /\ log' = [log EXCEPT ![p] = Append(@, "check:exit")]
  /\ UNCHANGED <<file, tree, patch_text, applyRes, file0, tree0, alone>>

\* The dry-run child reads the file, changes nothing and returns.
CheckReturn(p) ==
  /\ pc[p] = "checking"
  /\ \E r \in ChildResults :
       /\ checkRes' = [checkRes EXCEPT ![p] = <<r>>]
       /\ RunReturn(p, r, "apply")
  /\ log' = [log EXCEPT ![p] = Append(@, "check:exit")]
  /\ UNCHANGED <<file, tree, patch_text, stdout, applyRes, file0, tree0, alone>>

\* run(["git", "apply", path]): the child is started.
InvokeApply(p) ==
  /\ pc[p] = "apply"
  /\ log' = [log EXCEPT ![p] = Append(@, "apply:start")]
  /\ pc' = [pc EXCEPT ![p] = "applying"]
  /\ UNCHANGED <<file, tree, patch_text, stderr, stdout, exitcode, checkRes,
                 applyRes, file0, tree0, alone>>

\* The apply child reads the file, changes the working tree when it succeeds
\* and returns.
ApplyReturn(p) ==
  /\ pc[p] = "applying"
  /\ \E r \in ChildResults :
       /\ applyRes' = [applyRes EXCEPT ![p] = <<r>>]
       /\ tree' = IF r.rc = 0 THEN Append(tree, r.saw) ELSE tree
       /\ RunReturn(p, r, "print")
  /\ log' = [log EXCEPT ![p] = Append(@, "apply:exit")]
  /\ UNCHANGED <<file, patch_text, stdout, checkRes, file0, tree0, alone>>

\* print(f"Applied patch: {patch_path}"), and main() returns: status 0.
PrintExit(p) ==
  /\ pc[p] = "print"
  /\ stdout' = [stdout EXCEPT ![p] = @ \o Confirmation(patch_path)]
  /\ exitcode' = [exitcode EXCEPT ![p] = <<0>>]
  /\ pc' = [pc EXCEPT ![p] = "exited"]
  /\ UNCHANGED <<file, tree, patch_text, stderr, log, checkRes, applyRes,
                 file0, tree0, alone>>

\* One invocation at a time: a run starts when no other run is under way.
StartSeq(p) ==
  /\ \A q \in Procs \ {p} : ~Active(q)
  /\ Start(p)

Next ==
  \E p \in Procs :
    \/ StartSeq(p)
    \/ BlankExit(p)
    \/ OpenFile(p)
    \/ WriteFile(p)
    \/ InvokeCheck(p)
    \/ CheckReturn(p)
    \/ InvokeApply(p)
    \/ ApplyReturn(p)
    \/ PrintExit(p)

\* Invocations run one after the other.
Spec == Init /\ [][Next]_vars

NextConc ==
  \E p \in Procs :
    \/ Start(p)
    \/ BlankExit(p)
    \/ OpenFile(p)
    \/ WriteFile(p)
    \/ InvokeCheck(p)
    \/ CheckReturn(p)
    \/ InvokeApply(p)
    \/ ApplyReturn(p)
    \/ PrintExit(p)

\* Invocations may overlap.
SpecConc == Init /\ [][NextConc]_vars

(* --------------------------- properties ------------------------------- *)

\* Every character of t is whitespace (the empty text included).
AllWhitespace(t) == \A i \in 1..Len(t) : t[i] \in Whitespace

\* Reading bytes back as UTF-8; "?" stands for a byte that decodes to nothing.
RECURSIVE Utf8Decode(_)
Utf8Decode(b) ==
  IF b = <<>> THEN <<>>
  ELSE IF b[1] = 100 THEN <<"d">> \o Utf8Decode(Tail(b))
  ELSE IF b[1] = 32 THEN <<" ">> \o Utf8Decode(Tail(b))
  ELSE IF b[1] = 195 /\ Len(b) >= 2 /\ b[2] = 169
       THEN <<"e'">> \o Utf8Decode(Tail(Tail(b)))
  ELSE <<"?">> \o Utf8Decode(Tail(b))

Has(s, e) == \E i \in 1..Len(s) : s[i] = e

IsPrefix(s, t) == Len(s) <= Len(t) /\ SubSeq(t, 1, Len(s)) = s

Exited(p) == pc[p] = "exited"

CheckDone(p) == checkRes[p] # <<>>

ApplyDone(p) == applyRes[p] # <<>>

CheckFailed(p) == CheckDone(p) /\ checkRes[p][1].rc # 0

ApplyFailed(p) == ApplyDone(p) /\ applyRes[p][1].rc # 0

\* The error stream holds exactly the captured output of child result r.
Relayed(p, r) == stderr[p] = <<r.out, r.err>>

\* The exit code is that of child result r: r.rc itself when the child exited
\* with a status, and in any case not 0.
ExitsWith(p, r) ==
  /\ Len(exitcode[p]) = 1
  /\ exitcode[p][1] # 0
  /\ r.rc > 0 => exitcode[p][1] = r.rc

ConfirmationPrinted(p) == Has(stdout[p], "/tmp/tiara_patch.patch")

\* C1: a run whose input is empty or all whitespace gets no further than the
\* blank test: it starts no child and writes nothing, and once it has exited
\* its error stream holds the usage message and its exit code is 1.
C1_BlankInputUsage ==
  \A p \in Procs :
    (pc[p] # "start" /\ AllWhitespace(patch_text[p])) =>
      /\ pc[p] \in {"test", "exited"}
      /\ log[p] = <<>>
      /\ ~CheckDone(p) /\ ~ApplyDone(p)
      /\ stdout[p] = <<>>
      /\ Exited(p) =>
           /\ stderr[p] = <<"No patch text on stdin. Paste diff and end with Ctrl-D.", "\n">>
           /\ exitcode[p] = <<1>>

C1_Witness ==
  \E p \in Procs :
    /\ Exited(p)
    /\ patch_text[p] = <<" ", " ">>
    /\ exitcode[p] = <<1>>
    /\ stderr[p] # <<>>

\* C2: when the dry-run check of a run returned a non-zero code c, the run has
\* exited, never started the apply, relayed the check's captured standard
\* output and standard error to its error stream, and its exit code is c.
C2_CheckFailureRelayed ==
  \A p \in Procs :
    CheckFailed(p) =>
      /\ Exited(p)
      /\ ~AllWhitespace(patch_text[p])
      /\ ~Has(log[p], "apply:start")
      /\ ~ApplyDone(p)
      /\ Relayed(p, checkRes[p][1])
      /\ ExitsWith(p, checkRes[p][1])

C2_Witness ==
  \E p \in Procs :
    /\ CheckFailed(p)
    /\ checkRes[p][1].rc = 128
    /\ exitcode[p] = <<128>>
    /\ stderr[p] = <<"", "fatal: unrecognized input">>

\* C3: when the check returned 0 and the apply returned a non-zero code c, the
\* run has exited with the apply's captured output on its error stream, no
\* confirmation on standard output and exit code c; and every run that exited
\* with a non-zero code is the blank-input case (code 1) or has a failed child
\* whose code it exits with.
C3_ApplyFailureRelayed ==
  \A p \in Procs :
    /\ ApplyFailed(p) =>
         /\ Exited(p)
         /\ CheckDone(p) /\ checkRes[p][1].rc = 0
         /\ Relayed(p, applyRes[p][1])
         /\ stdout[p] = <<>>
         /\ ExitsWith(p, applyRes[p][1])
    /\ (Exited(p) /\ exitcode[p] # <<0>>) =>
         \/ AllWhitespace(patch_text[p]) /\ exitcode[p] = <<1>>
         \/ CheckFailed(p) /\ ExitsWith(p, checkRes[p][1])
         \/ ApplyFailed(p) /\ ExitsWith(p, applyRes[p][1])

C3_Witness ==
  \E p \in Procs :
    /\ ApplyFailed(p)
    /\ applyRes[p][1].rc = 1
    /\ exitcode[p] = <<1>>
    /\ stderr[p] = <<"Checking patch...", "error: patch does not apply">>

\* The input was not blank and both children returned 0.
BothSucceeded(p) ==
  /\ ~AllWhitespace(patch_text[p])
  /\ CheckDone(p) /\ checkRes[p][1].rc = 0
  /\ ApplyDone(p) /\ applyRes[p][1].rc = 0

\* C4: a run exits with status 0, having printed a confirmation that holds the
\* fixed path, exactly when its input was not blank and both children returned
\* 0; every other run exits non-zero and prints no confirmation.
C4_SuccessIffBothZero ==
  \A p \in Procs :
    /\ ~Exited(p) => stdout[p] = <<>>
    /\ Exited(p) =>
         /\ BothSucceeded(p) => (exitcode[p] = <<0>> /\ ConfirmationPrinted(p))
         /\ ~BothSucceeded(p) =>
              (Len(exitcode[p]) = 1 /\ exitcode[p][1] # 0 /\ stdout[p] = <<>>)

C4_Witness ==
  \E p \in Procs :
    /\ Exited(p)
    /\ BothSucceeded(p)
    /\ exitcode[p] = <<0>>
    /\ stdout[p] = <<"Applied patch: ", "/tmp/tiara_patch.patch", "\n">>

\* C5: with one invocation at a time, from the moment the check is invoked
\* until the apply has returned the file at the fixed path exists and reads
\* back as the run's input text, whatever the path held before; so what each
\* child read is that text.
C5_PersistedCopyIsInput ==
  \A p \in Procs :
    /\ pc[p] \in {"check", "checking", "apply", "applying"} =>
         (file.exists /\ Utf8Decode(file.data) = patch_text[p])
    /\ CheckDone(p) => Utf8Decode(checkRes[p][1].saw) = patch_text[p]
    /\ ApplyDone(p) => Utf8Decode(applyRes[p][1].saw) = patch_text[p]

C5_Witness ==
  \E p \in Procs :
    /\ pc[p] = "applying"
    /\ file0[p].exists
    /\ Len(file0[p].data) > Len(file.data)
    /\ patch_text[p] = <<"e'">>
    /\ file.data = <<195, 169>>

\* C6: the file at the fixed path is never deleted: once it exists it exists
\* in every later state, a step in which a run exits leaves it as it is, and
\* every exited run with non-blank input has left it on disk.
C6_TempFileNeverDeleted ==
  /\ [](\A p \in Procs :
          (Exited(p) /\ ~AllWhitespace(patch_text[p])) => file.exists)
  /\ [][/\ file.exists => file'.exists
        /\ \A p \in Procs :
             (pc[p] # "exited" /\ pc'[p] = "exited") => file' = file]_vars

C6_Witness ==
  \E p, q \in Procs :
    /\ p # q
    /\ Exited(p) /\ CheckFailed(p)
    /\ Exited(q) /\ AllWhitespace(patch_text[q])
    /\ file0[q].exists
    /\ file.exists
    /\ Utf8Decode(file.data) = patch_text[p]

\* Run p began with its patch already applied to the working tree.
AlreadyApplied(p) ==
  \E i \in 1..Len(tree0[p]) : Utf8Decode(tree0[p][i]) = patch_text[p]

\* C7: with one invocation at a time, a run on a patch that an earlier run
\* applied, and that the tool now rejects with a non-zero code c, ends like any
\* other failure: exit code c, the tool's output relayed, no confirmation, and
\* nothing more applied.
C7_SecondRunFailureSurfaced ==
  \A p \in Procs :
    AlreadyApplied(p) =>
      /\ CheckFailed(p) =>
           /\ Exited(p)
           /\ ExitsWith(p, checkRes[p][1])
           /\ Relayed(p, checkRes[p][1])
           /\ stdout[p] = <<>>
           /\ ~ApplyDone(p)
      /\ ApplyFailed(p) =>
           /\ Exited(p)
           /\ ExitsWith(p, applyRes[p][1])
           /\ Relayed(p, applyRes[p][1])
           /\ stdout[p] = <<>>

C7_Witness ==
  \E p, q \in Procs :
    /\ p # q
    /\ Exited(q) /\ exitcode[q] = <<0>>
    /\ patch_text[q] = patch_text[p]
    /\ AlreadyApplied(p)
    /\ CheckFailed(p) /\ checkRes[p][1].rc = 1
    /\ exitcode[p] = <<1>>
    /\ stderr[p] = <<"Checking patch...", "error: patch does not apply">>

Pipeline ==
  <<"open", "write", "check:start", "check:exit", "apply:start", "apply:exit">>

\* C8: the operations of a run are a prefix of: open and write the file, start
\* the check, the check returns, start the apply, the apply returns; so each
\* child is started at most once, the check after the write and the apply
\* after the check has returned, and only if it returned 0; and while a child
\* runs the run waits for it.
C8_SequentialPipeline ==
  \A p \in Procs :
    /\ IsPrefix(log[p], Pipeline)
    /\ Has(log[p], "apply:start") => (CheckDone(p) /\ checkRes[p][1].rc = 0)
    /\ CheckDone(p) <=> Has(log[p], "check:exit")
    /\ ApplyDone(p) <=> Has(log[p], "apply:exit")
    /\ pc[p] = "checking" <=>
         (Has(log[p], "check:start") /\ ~Has(log[p], "check:exit"))
    /\ pc[p] = "applying" <=>
         (Has(log[p], "apply:start") /\ ~Has(log[p], "apply:exit"))

C8_Witness ==
  \E p \in Procs :
    /\ Exited(p)
    /\ log[p] = Pipeline
    /\ exitcode[p] = <<0>>

\* C9: when invocations may overlap, a run that no other run overlapped had
\* its own input text checked and applied. (The witness is the race: a run
\* that exits 0 with its confirmation although both children read the other
\* run's text.)
C9_AloneRunSeesOwnText ==
  \A p \in Procs :
    alone[p] =>
      /\ CheckDone(p) => Utf8Decode(checkRes[p][1].saw) = patch_text[p]
      /\ ApplyDone(p) => Utf8Decode(applyRes[p][1].saw) = patch_text[p]

C9_Witness ==
  \E p, q \in Procs :
    /\ p # q
    /\ ~AllWhitespace(patch_text[p]) /\ ~AllWhitespace(patch_text[q])
    /\ patch_text[p] # patch_text[q]
    /\ Exited(p) /\ exitcode[p] = <<0>> /\ ConfirmationPrinted(p)
    /\ Utf8Decode(checkRes[p][1].saw) = patch_text[q]
    /\ Utf8Decode(applyRes[p][1].saw) = patch_text[q]
    /\ ~alone[p]

\* C10: with one invocation at a time, the step in which a run exits on blank
\* input leaves the file at the fixed path and the working tree as they were
\* when the run started; the step in which a run exits on a failed check
\* leaves the working tree as it was when the run started, the file holding
\* the run's text.
C10_FailedRunFrame ==
  [][\A p \in Procs :
       /\ (pc[p] = "test" /\ pc'[p] = "exited") =>
            (file' = file0[p] /\ tree' = tree0[p])
       /\ (pc[p] = "checking" /\ pc'[p] = "exited") =>
            (tree' = tree0[p] /\ Utf8Decode(file'.data) = patch_text[p])]_vars

C10_Witness ==
  \E p, q \in Procs :
    /\ p # q
    /\ Exited(q) /\ CheckFailed(q) /\ tree = tree0[q]
    /\ Exited(p) /\ AllWhitespace(patch_text[p])
    /\ file0[p].exists /\ file = file0[p]
    /\ tree = tree0[p]

====
